---- MODULE Spec2Model ----
(***************************************************************************)
(* A model of bogosql's SELECT executor (src/src/select.rs, eval.rs,       *)
(* table.rs): the catalog, the statement tree, the scalar and aggregating  *)
(* evaluators, the row-cursor algebra and the exec_select pipeline.        *)
(*                                                                         *)
(* Strings are TLA+ strings; usize/f64 values are integers (the cells the  *)
(* model enumerates are small integers, for which f64 arithmetic is exact);*)
(* Option<usize>::None is NoneIdx, Option<String>::None is NoName and an   *)
(* absent Option<Expr> is NoExpr. Row and column indices are 0-based as in *)
(* the code; TLA+ sequences are 1-based, hence the "+ 1" at each access.   *)
(* A node address (expr as *const _) is the node's path in its owner:      *)
(* <<i>> for cols[i-1], a \o <<1>> / a \o <<2>> for its boxed children.    *)
(* The avg aggregate is not among the function names the model enumerates. *)
(***************************************************************************)
EXTENDS Integers, Sequences, FiniteSets, TLC

\* ---------------------------------------------------------------- bounds
MaxRows == 2
MaxLimit == 2
MaxOffset == 1
MaxNum == 9
MaxDepth == 8

NoneIdx == -1
NoName == ""
NoExpr == [type |-> "None"]

\* ---------------------------------------------------------------- strings
\* The cell values and computed values the model compares, in byte order (str::cmp).
StrOrder == <<"", "-1", "-2", "0", "1", "10", "2", "3", "4", "5", "6", "7", "8", "9",
              "false", "true", "x">>

StrRank(s) == IF \E i \in 1..Len(StrOrder) : StrOrder[i] = s
              THEN CHOOSE i \in 1..Len(StrOrder) : StrOrder[i] = s
              ELSE 0

\* Ord of lhs.cmp(rhs): -1, 0, 1
StrCmp(a, b) == IF a = b THEN 0 ELSE IF StrRank(a) < StrRank(b) THEN -1 ELSE 1

\* str::to_ascii_lowercase on the function names the model enumerates
AsciiLower(s) ==
    CASE s = "COUNT" -> "count"
      [] s = "Count" -> "count"
      [] s = "SUM" -> "sum"
      [] s = "MIN" -> "min"
      [] s = "MAX" -> "max"
      [] OTHER -> s

\* str::eq_ignore_ascii_case(val, "true")
EqIgnoreCaseTrue(val) ==
    val \in {"true", "truE", "trUe", "trUE", "tRue", "tRuE", "tRUe", "tRUE",
             "True", "TruE", "TrUe", "TrUE", "TRue", "TRuE", "TRUe", "TRUE"}

coerce_bool(val) == val = "1" \/ EqIgnoreCaseTrue(val)

\* <f64 as FromStr>::from_str on the numerals the model enumerates
ParseF64(s) ==
    IF \E n \in (-MaxNum)..MaxNum : ToString(n) = s
    THEN [ok |-> TRUE, num |-> CHOOSE n \in (-MaxNum)..MaxNum : ToString(n) = s]
    ELSE [ok |-> FALSE, num |-> 0]

coerce_f64(val) == ParseF64(val).num

BoolStr(b) == IF b THEN "true" ELSE "false"

\* ---------------------------------------------------------------- results
Ok(v) == [ok |-> TRUE, val |-> v, err |-> "", arg |-> 0]
Err(kind, a) == [ok |-> FALSE, val |-> "", err |-> kind, arg |-> a]

\* ---------------------------------------------------------------- tables
Table(name, schema, data) == [name |-> name, schema |-> schema, data |-> data]

\* Table::get: data.get(col + row * cols)
TableGet(table, row, col) ==
    LET cols == Len(table.schema)
        idx == col + row * cols
    IN IF idx < Len(table.data)
       THEN [some |-> TRUE, val |-> table.data[idx + 1]]
       ELSE [some |-> FALSE, val |-> ""]

\* table.data.len() / table.schema.len()
RowCount(table) == Len(table.data) \div Len(table.schema)

\* ---------------------------------------------------------------- statement tree
Column(t, c) == [type |-> "Column", table |-> t, column |-> c]
ColIdx(i) == [type |-> "ColIdx", idx |-> i]
StrLiteral(s) == [type |-> "StrLiteral", lit |-> s]
Binary(op, l, r) == [type |-> "Binary", op |-> op, lhs |-> l, rhs |-> r]
Unary(op, e) == [type |-> "Unary", op |-> op, operand |-> e]
AggregateFn(name, args) == [type |-> "AggregateFn", name |-> name, args |-> args]

Wildcard == [type |-> "Wildcard"]
ColExpr(e) == [type |-> "Expr", expr |-> e]

TableSpecifier(name, alias) == [name |-> name, alias |-> alias]
JoinClause(kind, table, cond) == [kind |-> kind, table |-> table, condition |-> cond]
OrderBy(e, ordering) == [expr |-> e, ordering |-> ordering]
NoOrder == [expr |-> NoExpr, ordering |-> "None"]

SelectStmt(cols, table, join, cond, ordering, limit, offset) ==
    [cols |-> cols, table |-> table, join |-> join, condition |-> cond,
     ordering |-> ordering, limit |-> limit, offset |-> offset]

\* impl Display for BinOp
BinOpStr(op) ==
    CASE op = "Add" -> "+" [] op = "Sub" -> "-" [] op = "Mul" -> "*"
      [] op = "Div" -> "/" [] op = "Eq" -> "=" [] op = "Ne" -> "<>"
      [] op = "Lt" -> "<" [] op = "Gt" -> ">" [] op = "Le" -> "<="
      [] op = "Ge" -> ">=" [] op = "And" -> "AND" [] op = "Or" -> "OR"

RECURSIVE ExprStr(_)
RECURSIVE ArgsStr(_, _)
\* impl Display for Expr (and for ColSpecifier inside a call)
ExprStr(e) ==
    CASE e.type = "Column" -> e.column
      [] e.type = "ColIdx" -> ToString(e.idx)
      [] e.type = "StrLiteral" -> "'" \o e.lit \o "'"
      [] e.type = "Binary" ->
            "(" \o ExprStr(e.lhs) \o " " \o BinOpStr(e.op) \o " " \o ExprStr(e.rhs) \o ")"
      [] e.type = "Unary" -> "NOT " \o ExprStr(e.operand)
      [] e.type = "AggregateFn" -> e.name \o "(" \o ArgsStr(e.args, 1) \o ")"

ArgsStr(args, i) ==
    IF i > Len(args) THEN ""
    ELSE (IF i # 1 THEN ", " ELSE "")
         \o (IF args[i].type = "Wildcard" THEN "*" ELSE ExprStr(args[i].expr))
         \o ArgsStr(args, i + 1)

\* ---------------------------------------------------------------- name resolution
\* F(v), with v evaluated once: a let-binding of a computed value
Bind(v, F(_)) == CHOOSE r \in {F(x) : x \in {v}} : TRUE

\* schema.iter().enumerate().find(|(_, s)| s.name == name)
SchemaFind(table, name) ==
    IF \E i \in 1..Len(table.schema) : table.schema[i] = name
    THEN (CHOOSE i \in 1..Len(table.schema) :
            /\ table.schema[i] = name
            /\ \A j \in 1..(i - 1) : table.schema[j] # name) - 1
    ELSE NoneIdx

\* ctx.tables.iter().enumerate().find(|(_, t)| t.name == name)
TableFind(tables, name) ==
    IF \E i \in 1..Len(tables) : tables[i].name = name
    THEN (CHOOSE i \in 1..Len(tables) :
            /\ tables[i].name = name
            /\ \A j \in 1..(i - 1) : tables[j].name # name) - 1
    ELSE NoneIdx

ColRef(joindex, col) == [found |-> "some", joindex |-> joindex, col |-> col]
NoColRef == [found |-> "none", joindex |-> NoneIdx, col |-> NoneIdx]
PanicColRef == [found |-> "panic", joindex |-> NoneIdx, col |-> NoneIdx]

\* the column lookup that ends find_col, in the table at position joindex
ColRefIn(ctx, joindex, name) ==
    IF joindex = NoneIdx THEN NoColRef
    ELSE Bind(SchemaFind(ctx.tables[joindex + 1], name),
              LAMBDA c : IF c = NoneIdx THEN NoColRef ELSE ColRef(joindex, c))

\* QueryContext::find_col
FindCol(ctx, column) ==
    IF column.table # NoName
    THEN IF /\ column.table \in DOMAIN ctx.aliases
            /\ ctx.aliases[column.table] < Len(ctx.tables)
         THEN ColRefIn(ctx, ctx.aliases[column.table], column.column)
         ELSE ColRefIn(ctx, TableFind(ctx.tables, column.table), column.column)
    ELSE Bind({i \in 1..Len(ctx.tables) :
                  SchemaFind(ctx.tables[i], column.column) # NoneIdx},
              LAMBDA cands :
                 IF cands = {} THEN NoColRef
                 ELSE IF Cardinality(cands) > 1 THEN PanicColRef
                 ELSE ColRefIn(ctx, (CHOOSE i \in cands : TRUE) - 1, column.column))

\* ColRef::get
ColRefGet(ctx, ref, row_cursor) ==
    IF ref.joindex >= Len(row_cursor) THEN Err("ColNotFound", ref.joindex)
    ELSE IF row_cursor[ref.joindex + 1].row = NoneIdx THEN Err("CursorNone", ref.joindex)
    ELSE Bind(TableGet(ctx.tables[ref.joindex + 1], row_cursor[ref.joindex + 1].row, ref.col),
              LAMBDA cell : IF cell.some THEN Ok(cell.val)
                            ELSE Err("RowNotFound", row_cursor[ref.joindex + 1].row))

\* ---------------------------------------------------------------- scalar evaluation
\* eval_bin_op (Div, an f64 quotient, is not among the operators enumerated)
eval_bin_op(op, lhs, rhs) ==
    CASE op = "Add" -> Ok(ToString(coerce_f64(lhs) + coerce_f64(rhs)))
      [] op = "Sub" -> Ok(ToString(coerce_f64(lhs) - coerce_f64(rhs)))
      [] op = "Mul" -> Ok(ToString(coerce_f64(lhs) * coerce_f64(rhs)))
      [] op = "Eq" -> Ok(BoolStr(lhs = rhs))
      [] op = "Ne" -> Ok(BoolStr(lhs # rhs))
      [] op = "Lt" -> Ok(BoolStr(StrCmp(lhs, rhs) < 0))
      [] op = "Gt" -> Ok(BoolStr(StrCmp(lhs, rhs) > 0))
      [] op = "Le" -> Ok(BoolStr(StrCmp(lhs, rhs) <= 0))
      [] op = "Ge" -> Ok(BoolStr(StrCmp(lhs, rhs) >= 0))
      [] op = "And" -> Ok(BoolStr(coerce_bool(lhs) /\ coerce_bool(rhs)))
      [] op = "Or" -> Ok(BoolStr(coerce_bool(lhs) \/ coerce_bool(rhs)))

\* AggregateResult::default()
EmptyMap == [a \in {} |-> 0]
AggregateResult == [count |-> EmptyMap, sum |-> EmptyMap, min |-> EmptyMap, max |-> EmptyMap]

\* HashMap::get(key).map(to_string).ok_or_else(AggregateCall)
MapGet(m, addr) == IF addr \in DOMAIN m THEN Ok(ToString(m[addr])) ELSE Err("AggregateCall", 0)

\* HashMap::entry(key).or_default()
EntryOrDefault(m, addr) == IF addr \in DOMAIN m THEN m[addr] ELSE 0

MapPut(m, addr, v) == [a \in (DOMAIN m) \cup {addr} |-> IF a = addr THEN v ELSE m[a]]

\* the Column arm of eval_expr
EvalColumn(expr, ctx, row_cursor) ==
    Bind(FindCol(ctx, expr),
         LAMBDA ref : IF ref.found = "panic" THEN Err("Panic", 0)
                      ELSE IF ref.found = "none" THEN Err("ColNotFound", 0)
                      ELSE ColRefGet(ctx, ref, row_cursor))

\* the true-aggregate arms of eval_expr: the accumulator of the node at addr
EvalAggregateFn(expr, addr, aggregates) ==
    Bind(AsciiLower(expr.name),
         LAMBDA name :
            CASE name = "count" -> MapGet(aggregates.count, addr)
              [] name = "sum" -> MapGet(aggregates.sum, addr)
              [] name = "min" -> MapGet(aggregates.min, addr)
              [] name = "max" -> MapGet(aggregates.max, addr)
              [] OTHER -> Err("AggregateCall", 0))

RECURSIVE eval_expr(_, _, _, _, _, _, _)
\* eval_expr; fuel is the remaining call stack
eval_expr(expr, addr, cols, ctx, row_cursor, aggregates, fuel) ==
    IF fuel = 0 THEN Err("StackOverflow", 0)
    ELSE
    CASE expr.type = "Column" -> EvalColumn(expr, ctx, row_cursor)
      [] expr.type = "ColIdx" ->
            IF expr.idx = 0 \/ expr.idx > Len(cols) THEN Err("ColNotFound", expr.idx)
            ELSE eval_expr(cols[expr.idx], <<expr.idx>>, cols, ctx, row_cursor,
                           aggregates, fuel - 1)
      [] expr.type = "StrLiteral" -> Ok(expr.lit)
      [] expr.type = "Binary" ->
            Bind(eval_expr(expr.lhs, addr \o <<1>>, cols, ctx, row_cursor, aggregates, fuel - 1),
                 LAMBDA lhs :
                    IF ~lhs.ok THEN lhs
                    ELSE Bind(eval_expr(expr.rhs, addr \o <<2>>, cols, ctx, row_cursor,
                                        aggregates, fuel - 1),
                              LAMBDA rhs : IF ~rhs.ok THEN rhs
                                           ELSE eval_bin_op(expr.op, lhs.val, rhs.val)))
      [] expr.type = "Unary" ->
            Bind(eval_expr(expr.operand, addr \o <<1>>, cols, ctx, row_cursor, aggregates,
                           fuel - 1),
                 LAMBDA val : IF ~val.ok THEN val
                              ELSE Ok(IF ~coerce_bool(val.val) THEN "1" ELSE "0"))
      [] expr.type = "AggregateFn" -> EvalAggregateFn(expr, addr, aggregates)

\* ---------------------------------------------------------------- aggregating evaluation
AggRes(res, results) == [res |-> res, results |-> results]

IntMin(a, b) == IF a < b THEN a ELSE b
IntMax(a, b) == IF a > b THEN a ELSE b

ArgNum(n) == [ok |-> TRUE, num |-> n, err |-> Ok("")]
ArgErr(e) == [ok |-> FALSE, num |-> 0, err |-> e]

\* the closure eval_col_spec of aggregate_expr, applied to args[0]
eval_col_spec(args, addr, cols, ctx, row_cursor, results, fuel) ==
    IF Len(args) = 0 THEN ArgErr(Err("Panic", 0))
    ELSE IF args[1].type = "Wildcard" THEN ArgErr(Err("DisallowedWildcard", 0))
    ELSE Bind(eval_expr(args[1].expr, addr \o <<1>>, cols, ctx, row_cursor, results, fuel - 1),
              LAMBDA val :
                 IF ~val.ok THEN ArgErr(val)
                 ELSE Bind(ParseF64(val.val),
                           LAMBDA num : IF ~num.ok THEN ArgErr(Err("Coerce", 0))
                                        ELSE ArgNum(num.num)))

\* the count arm of aggregate_expr
AggregateCount(addr, results) ==
    Bind(EntryOrDefault(results.count, addr) + 1,
         LAMBDA count : AggRes(Ok(ToString(count)),
                               [results EXCEPT !.count = MapPut(@, addr, count)]))

\* the sum, min and max arms of aggregate_expr, given the value of args[0]
AggregateNum(name, arg, addr, results) ==
    IF ~arg.ok THEN AggRes(arg.err, results)
    ELSE CASE name = "sum" ->
                Bind(EntryOrDefault(results.sum, addr) + arg.num,
                     LAMBDA values : AggRes(Ok(ToString(values)),
                                            [results EXCEPT !.sum = MapPut(@, addr, values)]))
           [] name = "min" ->
                Bind(IntMin(EntryOrDefault(results.min, addr), arg.num),
                     LAMBDA values : AggRes(Ok(ToString(values)),
                                            [results EXCEPT !.min = MapPut(@, addr, values)]))
           [] name = "max" ->
                Bind(IntMax(EntryOrDefault(results.max, addr), arg.num),
                     LAMBDA values : AggRes(Ok(ToString(values)),
                                            [results EXCEPT !.max = MapPut(@, addr, values)]))

RECURSIVE aggregate_expr(_, _, _, _, _, _, _)
\* aggregate_expr: the value and the accumulators after the call
aggregate_expr(expr, addr, cols, ctx, row_cursor, results, fuel) ==
    IF fuel = 0 THEN AggRes(Err("StackOverflow", 0), results)
    ELSE
    CASE expr.type = "ColIdx" ->
            IF expr.idx = 0 \/ expr.idx > Len(cols)
            THEN AggRes(Err("ColNotFound", expr.idx), results)
            ELSE IF addr = <<expr.idx>> THEN AggRes(Err("Recurse", 0), results)
            ELSE aggregate_expr(cols[expr.idx], <<expr.idx>>, cols, ctx, row_cursor,
                                results, fuel - 1)
      [] expr.type = "Binary" ->
            Bind(aggregate_expr(expr.lhs, addr \o <<1>>, cols, ctx, row_cursor, results,
                                fuel - 1),
                 LAMBDA lhs :
                    IF ~lhs.res.ok THEN lhs
                    ELSE Bind(aggregate_expr(expr.rhs, addr \o <<2>>, cols, ctx, row_cursor,
                                             lhs.results, fuel - 1),
                              LAMBDA rhs :
                                 IF ~rhs.res.ok THEN rhs
                                 ELSE AggRes(eval_bin_op(expr.op, lhs.res.val, rhs.res.val),
                                             rhs.results)))
      [] expr.type = "Unary" ->
            Bind(aggregate_expr(expr.operand, addr \o <<1>>, cols, ctx, row_cursor, results,
                                fuel - 1),
                 LAMBDA val :
                    IF ~val.res.ok THEN val
                    ELSE AggRes(Ok(IF ~coerce_bool(val.res.val) THEN "1" ELSE "0"),
                                val.results))
      [] expr.type = "AggregateFn" ->
            IF AsciiLower(expr.name) = "count" THEN AggregateCount(addr, results)
            ELSE IF AsciiLower(expr.name) \in {"sum", "min", "max"}
            THEN AggregateNum(AsciiLower(expr.name),
                              eval_col_spec(expr.args, addr, cols, ctx, row_cursor, results, fuel),
                              addr, results)
            ELSE AggRes(Err("UnknownFunction", 0), results)
      [] OTHER ->
            AggRes(eval_expr(expr, addr, cols, ctx, row_cursor, results, fuel), results)

RECURSIVE find_aggregate_fn(_)
\* find_aggregate_fn(expr, ctx).is_some()
find_aggregate_fn(expr) ==
    CASE expr.type = "AggregateFn" ->
            AsciiLower(expr.name) \in {"count", "sum", "avg", "max", "min"}
      [] expr.type = "Binary" -> find_aggregate_fn(expr.lhs) \/ find_aggregate_fn(expr.rhs)
      [] expr.type = "Unary" -> find_aggregate_fn(expr.operand)
      [] OTHER -> FALSE

\* ---------------------------------------------------------------- query context
\* the table specifiers of FROM and of each JOIN, in order
TableSpecs(sql) == <<sql.table>> \o [j \in 1..Len(sql.join) |-> sql.join[j].table]

\* the alias map built by exec_select: a later insert overwrites an earlier one
Aliases(sql) ==
    [a \in {TableSpecs(sql)[i].alias : i \in 1..Len(TableSpecs(sql))} \ {NoName} |->
        (CHOOSE i \in 1..Len(TableSpecs(sql)) :
            /\ TableSpecs(sql)[i].alias = a
            /\ \A j \in (i + 1)..Len(TableSpecs(sql)) : TableSpecs(sql)[j].alias # a) - 1]

\* the names of the FROM table and of each JOIN table, in order
TableNames(sql) == [i \in 1..Len(TableSpecs(sql)) |-> TableSpecs(sql)[i].name]

\* the statement exec_select_sub runs: with ORDER BY, a clone without
\* ordering, limit and offset
SubSql(sql) ==
    IF sql.ordering # NoOrder
    THEN [sql EXCEPT !.ordering = NoOrder, !.limit = NoneIdx, !.offset = NoneIdx]
    ELSE sql

\* QueryContext { sql, tables, aliases }
QueryContext(db, sql) ==
    [sql |-> SubSql(sql),
     tables |-> [i \in 1..Len(sql.join) + 1 |-> db[TableNames(sql)[i]]],
     aliases |-> Aliases(sql)]

\* the Wildcard arm of extend_colspecs: the columns of the tables from position t on
RECURSIVE WildcardCols(_, _)
WildcardCols(ctx, t) ==
    IF t > Len(ctx.tables) THEN <<>>
    ELSE [c \in 1..Len(ctx.tables[t].schema) |->
             [expr |-> Column(ctx.tables[t].name, ctx.tables[t].schema[c]),
              name |-> ctx.tables[t].schema[c]]]
         \o WildcardCols(ctx, t + 1)

RECURSIVE extend_colspecs(_, _, _)
\* extend_colspecs, from colspecs[i] on: the (expression, header name) pairs
extend_colspecs(ctx, colspecs, i) ==
    IF i > Len(colspecs) THEN <<>>
    ELSE (IF colspecs[i].type = "Wildcard" THEN WildcardCols(ctx, 1)
          ELSE <<[expr |-> colspecs[i].expr, name |-> ExprStr(colspecs[i].expr)]>>)
         \o extend_colspecs(ctx, colspecs, i + 1)

\* the expressions and the header names of the expanded projection
ExpandedExprs(ctx, sql) ==
    Bind(extend_colspecs(ctx, sql.cols, 1), LAMBDA ex : [n \in 1..Len(ex) |-> ex[n].expr])
ExpandedNames(ctx, sql) ==
    Bind(extend_colspecs(ctx, sql.cols, 1), LAMBDA ex : [n \in 1..Len(ex) |-> ex[n].name])

\* the projection exec_select passes to exec_select_sub: with ORDER BY the
\* sort key is appended
SubCols(ctx, sql) ==
    IF sql.ordering # NoOrder THEN Append(ExpandedExprs(ctx, sql), sql.ordering.expr)
    ELSE ExpandedExprs(ctx, sql)

\* ---------------------------------------------------------------- cursors
RowCursor(row, shown) == [row |-> row, shown |-> shown]
\* RowCursor::new
NewRowCursor == RowCursor(0, FALSE)

RECURSIVE IncrDigitKeepNone(_, _, _)
\* a faulty carry, which leaves the wrapped cursor at None instead of row 0
IncrDigitKeepNone(row_cursor, row_counts, digit) ==
    IF row_cursor[digit + 1].row = NoneIdx
    THEN IF digit >= 1
         THEN IncrDigitKeepNone(row_cursor, row_counts, digit - 1)
         ELSE [valid |-> FALSE, cursor |-> row_cursor]
    ELSE [valid |-> TRUE,
          cursor |-> [row_cursor EXCEPT ![digit + 1].row =
                         IF @ + 1 < row_counts[digit + 1] THEN @ + 1 ELSE NoneIdx]]

RECURSIVE IncrDigit(_, _, _)
\* the while loop of incr_row_cursor at position digit (0-based)
IncrDigit(row_cursor, row_counts, digit) ==
    IF row_cursor[digit + 1].row = NoneIdx
    THEN IF digit >= 1
         THEN IncrDigit([row_cursor EXCEPT ![digit + 1] = RowCursor(0, FALSE)],
                        row_counts, digit - 1)
         ELSE [valid |-> FALSE, cursor |-> row_cursor]
    ELSE [valid |-> TRUE,
          cursor |-> [row_cursor EXCEPT ![digit + 1].row =
                         IF @ + 1 < row_counts[digit + 1] THEN @ + 1 ELSE NoneIdx]]

\* incr_row_cursor
incr_row_cursor(row_cursor, row_counts) ==
    IncrDigit(row_cursor, row_counts, Len(row_cursor) - 1)

\* ---------------------------------------------------------------- check_print
\* join_allow_none of exec_select_sub
JoinAllowNone(ctx) == <<FALSE>> \o [j \in 1..Len(ctx.sql.join) |-> ctx.sql.join[j].kind = "Left"]

\* the match on the value of a join condition: "true", "false", or "panic"
\* when the evaluation does not return
JoinVerdict(ctx, row_cursor, val) ==
    IF val.ok THEN BoolStr(coerce_bool(val.val))
    ELSE IF val.err = "CursorNone"
    THEN BoolStr(JoinAllowNone(ctx)[val.arg + 1] /\ ~row_cursor[val.arg + 1].shown)
    ELSE IF val.err \in {"Panic", "StackOverflow"} THEN "panic"
    ELSE "false"

\* the closure given to join.iter().all(), for join clause j
JoinPasses(ctx, cols, row_cursor, j) ==
    JoinVerdict(ctx, row_cursor,
                eval_expr(ctx.sql.join[j].condition, <<0 - j>>, cols, ctx, row_cursor,
                          AggregateResult, MaxDepth))

RECURSIVE JoinAll(_, _, _, _)
\* Iterator::all over the join clauses from clause j on (short-circuit)
JoinAll(ctx, cols, row_cursor, j) ==
    IF j > Len(ctx.sql.join) THEN "true"
    ELSE Bind(JoinPasses(ctx, cols, row_cursor, j),
              LAMBDA p : IF p = "true" THEN JoinAll(ctx, cols, row_cursor, j + 1) ELSE p)

\* the second operand of ||: every LEFT cursor is an unshown None, every other cursor a row
PaddedCombination(ctx, row_cursor) ==
    /\ \E i \in 1..Len(row_cursor) : JoinAllowNone(ctx)[i]
    /\ \A i \in 1..Len(row_cursor) :
          IF JoinAllowNone(ctx)[i]
          THEN row_cursor[i].row = NoneIdx /\ ~row_cursor[i].shown
          ELSE row_cursor[i].row # NoneIdx

CheckRes(pass, err) == [pass |-> pass, err |-> err]

\* join_cond of check_print: "true", "false" or "panic"
JoinCond(ctx, cols, row_cursor) ==
    IF Len(ctx.sql.join) = 0
    THEN BoolStr(\A i \in 1..Len(row_cursor) : row_cursor[i].row # NoneIdx)
    ELSE Bind(JoinAll(ctx, cols, row_cursor, 1),
              LAMBDA all : IF all = "false" THEN BoolStr(PaddedCombination(ctx, row_cursor))
                           ELSE all)

\* the WHERE part of check_print
WhereCond(ctx, cols, row_cursor) ==
    IF ctx.sql.condition = NoExpr THEN CheckRes(TRUE, Ok(""))
    ELSE Bind(eval_expr(ctx.sql.condition, <<0>>, cols, ctx, row_cursor, AggregateResult,
                        MaxDepth),
              LAMBDA cond : IF ~cond.ok THEN CheckRes(FALSE, cond)
                            ELSE CheckRes(coerce_bool(cond.val), Ok("")))

\* the closure check_print of exec_select_sub
check_print(ctx, cols, row_cursor) ==
    Bind(JoinCond(ctx, cols, row_cursor),
         LAMBDA join_cond :
            IF join_cond = "panic" THEN CheckRes(FALSE, Err("Panic", 0))
            ELSE IF join_cond = "false" THEN CheckRes(FALSE, Ok(""))
            ELSE WhereCond(ctx, cols, row_cursor))

RowRes(ok, row, err) == [ok |-> ok, row |-> row, err |-> err]

RECURSIVE EvalRow(_, _, _, _, _)
\* cols.iter().map(eval_expr, CursorNone => "").collect::<Result<Vec<_>, _>>(), from cols[i] on
EvalRow(ctx, cols, row_cursor, aggregates, i) ==
    IF i > Len(cols) THEN RowRes(TRUE, <<>>, Ok(""))
    ELSE Bind(eval_expr(cols[i], <<i>>, cols, ctx, row_cursor, aggregates, MaxDepth),
              LAMBDA res :
                 IF ~res.ok /\ res.err # "CursorNone" THEN RowRes(FALSE, <<>>, res)
                 ELSE Bind(EvalRow(ctx, cols, row_cursor, aggregates, i + 1),
                           LAMBDA rest :
                              IF ~rest.ok THEN rest
                              ELSE RowRes(TRUE, <<IF res.ok THEN res.val ELSE "">> \o rest.row,
                                          Ok(""))))

\* ---------------------------------------------------------------- exec_select, step by step
\* The state of one exec_select call: pc is the position in exec_select /
\* exec_select_sub, out the caller's sink, buf the BufferOutput of the ORDER BY
\* path, ret the returned Result ("running" before the return; "Panic" and
\* "StackOverflow" mean the call never returns). visited is the set of cursor
\* positions handed to check_print so far (a history of the iteration).
InitState ==
    [pc |-> "start", cols |-> <<>>, row_cursor |-> <<>>, printed_rows |-> 0,
     results |-> AggregateResult, out |-> <<>>, buf |-> <<>>, ret |-> "running",
     visited |-> {}]

CursorRows(row_cursor) == [i \in 1..Len(row_cursor) |-> row_cursor[i].row]

\* out.output(row) inside exec_select_sub: the sink is buf on the ORDER BY path
SubOutput(sql, s, row) ==
    IF sql.ordering # NoOrder
    THEN [s EXCEPT !.buf = Append(@, row)]
    ELSE [s EXCEPT !.out = Append(@, row)]

\* exec_select_sub returns Ok(()): exec_select goes on to the sort or returns
SubReturnOk(sql, s) ==
    IF sql.ordering # NoOrder
    THEN [s EXCEPT !.pc = "sort"]
    ELSE [s EXCEPT !.pc = "done", !.ret = "Ok"]

\* an Err propagated by ? up to the caller of exec_select
ReturnErr(s, err) == [s EXCEPT !.pc = "done", !.ret = err.err]

\* a faulty start, which writes the header before it looks the tables up
ExecSelectHeaderFirst(db, sql, s) ==
    [s EXCEPT !.out = Append(@, [i \in 1..Len(sql.cols) |-> "?"]),
              !.pc = "done",
              !.ret = IF \E i \in 1..Len(TableNames(sql)) : TableNames(sql)[i] \notin DOMAIN db
                      THEN "TableNotFound" ELSE "Ok"]

\* exec_select up to the call of exec_select_sub, and the setup of exec_select_sub
ExecSelectStart(db, sql, s) ==
    IF \E i \in 1..Len(TableNames(sql)) : TableNames(sql)[i] \notin DOMAIN db
    THEN [s EXCEPT !.pc = "done", !.ret = "TableNotFound"]
    ELSE Bind(SubCols(QueryContext(db, sql), sql),
              LAMBDA cols :
                 [s EXCEPT !.out = Append(@, ExpandedNames(QueryContext(db, sql), sql)),
                           !.cols = cols,
                           !.row_cursor = [i \in 1..Len(sql.join) + 1 |-> NewRowCursor],
                           !.pc = IF \E i \in 1..Len(cols) : find_aggregate_fn(cols[i])
                                  THEN "agg" ELSE "main"])

RowCounts(ctx) == [i \in 1..Len(ctx.tables) |-> RowCount(ctx.tables[i])]

\* a faulty limit test, which forgets the offset
LimitReachedWithoutOffset(ctx, printed_rows) ==
    ctx.sql.limit # NoneIdx /\ ctx.sql.limit <= printed_rows

\* the limit test at the head of the main loop
LimitReached(ctx, printed_rows) ==
    /\ ctx.sql.limit # NoneIdx
    /\ (IF ctx.sql.offset = NoneIdx THEN 0 ELSE ctx.sql.offset) + ctx.sql.limit <= printed_rows

\* if offset <= printed_rows { out.output(&values) }
OffsetPassed(ctx, printed_rows) ==
    (IF ctx.sql.offset = NoneIdx THEN 0 ELSE ctx.sql.offset) <= printed_rows

\* the end of an iteration of either loop: incr_row_cursor and the test that follows it
Advance(sql, ctx, s, incr) ==
    IF incr.valid THEN [s EXCEPT !.row_cursor = incr.cursor]
    ELSE SubReturnOk(sql, [s EXCEPT !.row_cursor = incr.cursor])

\* the body of if check_print(..)? { .. } in the main loop, s.row_cursor already shown
PrintRow(sql, ctx, s, values) ==
    IF ~values.ok THEN ReturnErr(s, values.err)
    ELSE Bind([(IF OffsetPassed(ctx, s.printed_rows) THEN SubOutput(sql, s, values.row) ELSE s)
                 EXCEPT !.printed_rows = @ + 1],
              LAMBDA t : Advance(sql, ctx, t, incr_row_cursor(t.row_cursor, RowCounts(ctx))))

\* the main loop after the limit test, given the result of check_print
MainLoopBody(sql, ctx, s, cp) ==
    IF ~cp.err.ok THEN ReturnErr(s, cp.err)
    ELSE IF cp.pass
    THEN Bind([s EXCEPT !.row_cursor =
                  [i \in 1..Len(s.row_cursor) |-> RowCursor(s.row_cursor[i].row, TRUE)]],
              LAMBDA t : PrintRow(sql, ctx, t,
                                  EvalRow(ctx, t.cols, t.row_cursor, AggregateResult, 1)))
    ELSE Advance(sql, ctx, s, incr_row_cursor(s.row_cursor, RowCounts(ctx)))

\* one iteration of the main loop of exec_select_sub
MainLoopIter(sql, ctx, s) ==
    IF LimitReached(ctx, s.printed_rows) THEN SubReturnOk(sql, s)
    ELSE MainLoopBody(sql, ctx, [s EXCEPT !.visited = @ \cup {CursorRows(s.row_cursor)}],
                      check_print(ctx, s.cols, s.row_cursor))

MainLoopStep(db, sql, s) == MainLoopIter(sql, QueryContext(db, sql), s)

RECURSIVE FoldCols(_, _, _, _, _)
\* for col in cols { aggregate_expr(col, ..)? }, from cols[i] on
FoldCols(ctx, cols, row_cursor, results, i) ==
    IF i > Len(cols) THEN AggRes(Ok(""), results)
    ELSE Bind(aggregate_expr(cols[i], <<i>>, cols, ctx, row_cursor, results, MaxDepth),
              LAMBDA agg : IF ~agg.res.ok THEN agg
                           ELSE FoldCols(ctx, cols, row_cursor, agg.results, i + 1))

\* for col in cols { if check_print(..)? { aggregate_expr(col, ..)? } }: check_print
\* gives the same answer for every col, the cursor being the same
AggregateCols(ctx, cols, row_cursor, results, cp) ==
    IF ~cp.err.ok THEN AggRes(cp.err, results)
    ELSE IF ~cp.pass THEN AggRes(Ok(""), results)
    ELSE FoldCols(ctx, cols, row_cursor, results, 1)

\* the aggregate loop after the fold: incr_row_cursor and the break test
AggAdvance(s, folded, incr) ==
    IF ~folded.res.ok THEN ReturnErr(s, folded.res)
    ELSE [s EXCEPT !.results = folded.results,
                   !.row_cursor = incr.cursor,
                   !.pc = IF \/ ~incr.valid
                             \/ \E i \in 1..Len(incr.cursor) : incr.cursor[i].row = NoneIdx
                          THEN "agg_emit" ELSE "agg"]

\* one iteration of the aggregate loop of exec_select_sub
AggLoopIter(ctx, s) ==
    AggAdvance([s EXCEPT !.visited = @ \cup {CursorRows(s.row_cursor)}],
               AggregateCols(ctx, s.cols, s.row_cursor, s.results,
                             check_print(ctx, s.cols, s.row_cursor)),
               incr_row_cursor(s.row_cursor, RowCounts(ctx)))

AggLoopStep(db, sql, s) == AggLoopIter(QueryContext(db, sql), s)

\* the output of the aggregated row, given its cells
AggOutput(sql, s, values) ==
    IF ~values.ok THEN ReturnErr(s, values.err)
    ELSE SubReturnOk(sql, SubOutput(sql, s, values.row))

\* exec_select_sub after the aggregate loop: the single aggregated row
AggEmitStep(db, sql, s) ==
    AggOutput(sql, s, EvalRow(QueryContext(db, sql), s.cols, s.row_cursor, s.results, 1))

\* lhs.cmp(rhs) of the sort_by closure on the synthetic last cell, reversed for Desc
SortCmp(lhs, rhs, desc) ==
    IF desc THEN 0 - StrCmp(lhs[Len(lhs)], rhs[Len(rhs)])
    ELSE StrCmp(lhs[Len(lhs)], rhs[Len(rhs)])

RECURSIVE InsertSorted(_, _, _, _)
\* the place a stable sort gives row among the first i of the sorted rows: after
\* every row that does not compare greater
InsertSorted(sorted, row, desc, i) ==
    IF i = 0 \/ SortCmp(sorted[i], row, desc) <= 0
    THEN SubSeq(sorted, 1, i) \o <<row>> \o SubSeq(sorted, i + 1, Len(sorted))
    ELSE InsertSorted(sorted, row, desc, i - 1)

RECURSIVE SortBy(_, _, _)
\* buf.0.sort_by(..) over the first n rows: stable, by the last (synthetic) cell
SortBy(rows, desc, n) ==
    IF n = 0 THEN <<>>
    ELSE Bind(SortBy(rows, desc, n - 1),
              LAMBDA sorted : InsertSorted(sorted, rows[n], desc, Len(sorted)))

\* iter().skip(offset).take(limit)
SkipTake(rows, offset, limit) ==
    SubSeq(rows, offset + 1, IF offset + limit < Len(rows) THEN offset + limit ELSE Len(rows))

\* the rows exec_select outputs after the sort
SortedWindow(sql, sorted) ==
    IF sql.limit # NoneIdx
    THEN SkipTake(sorted, IF sql.offset = NoneIdx THEN 0 ELSE sql.offset, sql.limit)
    ELSE sorted

\* a faulty output, which hands the rows to the sink with the sort key
OutputSortedWithKey(s, sorted, kept) ==
    [s EXCEPT !.buf = sorted, !.out = @ \o kept, !.pc = "done", !.ret = "Ok"]

\* out.output(&row[..row.len() - 1]) for each row
OutputSorted(s, sorted, kept) ==
    [s EXCEPT !.buf = sorted,
              !.out = @ \o [i \in 1..Len(kept) |-> SubSeq(kept[i], 1, Len(kept[i]) - 1)],
              !.pc = "done", !.ret = "Ok"]

\* exec_select after exec_select_sub on the ORDER BY path: sort, cut, output
SortStep(db, sql, s) ==
    Bind(SortBy(s.buf, sql.ordering.ordering = "Desc", Len(s.buf)),
         LAMBDA sorted : OutputSorted(s, sorted, SortedWindow(sql, sorted)))

\* the step exec_select takes from position s.pc
StepOf(db, sql, s) ==
    CASE s.pc = "start" -> ExecSelectStart(db, sql, s)
      [] s.pc = "main" -> MainLoopStep(db, sql, s)
      [] s.pc = "agg" -> AggLoopStep(db, sql, s)
      [] s.pc = "agg_emit" -> AggEmitStep(db, sql, s)
      [] s.pc = "sort" -> SortStep(db, sql, s)

RECURSIVE RunFrom(_, _, _)
\* the state in which the call that is in state s ends
RunFrom(db, sql, s) == IF s.pc = "done" THEN s ELSE RunFrom(db, sql, StepOf(db, sql, s))

\* exec_select(out, db, sql) from an empty sink
exec_select(db, sql) == RunFrom(db, sql, InitState)

\* ---------------------------------------------------------------- inputs
\* The catalog holds tables A(id, k) and B(bid, k). The first cell of row i
\* (1-based) is its number, the second is drawn from CellVals.
CellVals == {"1", "2"}

RECURSIVE SeqsUpTo(_, _)
\* the sequences over S of length at most n
SeqsUpTo(S, n) ==
    IF n = 0 THEN {<<>>}
    ELSE LET shorter == SeqsUpTo(S, n - 1)
         IN shorter \cup {Append(q, x) : q \in {r \in shorter : Len(r) = n - 1}, x \in S}

\* the stored table of rows <<i, ks[i]>>, row-major
MakeTable(name, schema, ks) ==
    Table(name, schema,
          [n \in 1..(2 * Len(ks)) |-> IF n % 2 = 1 THEN ToString((n + 1) \div 2)
                                      ELSE ks[n \div 2]])

TablesA == {MakeTable("A", <<"id", "k">>, ks) : ks \in SeqsUpTo(CellVals, MaxRows)}
TablesB == {MakeTable("B", <<"bid", "k">>, ks) : ks \in SeqsUpTo(CellVals, MaxRows)}

Lit(s) == StrLiteral(s)
Eq(l, r) == Binary("Eq", l, r)
CountStar == AggregateFn("count", <<Wildcard>>)
Agg(name, e) == AggregateFn(name, <<ColExpr(e)>>)

Limits == {NoneIdx} \cup 0..MaxLimit
Offsets == {NoneIdx} \cup 0..MaxOffset

FromA == TableSpecifier("A", NoName)
JoinB(kind, cond) == <<JoinClause(kind, TableSpecifier("B", NoName), cond)>>

\* WHERE predicates over A
Predicates == {Eq(Column(NoName, "k"), Lit("1")), Lit("true"), Lit("false"),
               Column(NoName, "k"), Unary("Not", Eq(Column(NoName, "k"), Lit("1")))}

\* ON conditions between A and B
JoinConds == {Eq(Column("A", "k"), Column("B", "k")), Eq(Column("B", "k"), Column("A", "k")),
              Lit("true"), Lit("false"),
              Eq(Column("A", "k"), Lit("1")), Eq(Column("B", "k"), Lit("1"))}

PlainCols == {<<Wildcard>>, <<ColExpr(Lit("x"))>>, <<ColExpr(Column(NoName, "id"))>>}

AggCols == {<<ColExpr(CountStar)>>, <<ColExpr(Agg("sum", Column(NoName, "k")))>>,
            <<ColExpr(Agg("min", Column(NoName, "k"))), ColExpr(Agg("MAX", Column(NoName, "k")))>>,
            <<ColExpr(CountStar), ColExpr(Column(NoName, "k"))>>}

Orderings == {NoOrder, OrderBy(Column(NoName, "k"), "Asc"), OrderBy(Column(NoName, "k"), "Desc")}

\* SELECT cs FROM A [WHERE p]
WhereQueries ==
    {SelectStmt(cs, FromA, <<>>, p, NoOrder, NoneIdx, NoneIdx) :
        cs \in PlainCols, p \in Predicates \cup {NoExpr}}

\* SELECT cs FROM A [WHERE k = '1'] [ORDER BY k] [LIMIT l] [OFFSET o]
LimitQueries ==
    {SelectStmt(cs, FromA, <<>>, p, ob, l, o) :
        cs \in {<<Wildcard>>, <<ColExpr(Lit("x"))>>},
        p \in {NoExpr, Eq(Column(NoName, "k"), Lit("1"))},
        ob \in Orderings, l \in Limits, o \in Offsets}

\* SELECT * FROM A INNER|LEFT JOIN B ON c
PlainJoinQueries ==
    {SelectStmt(<<Wildcard>>, FromA, JoinB(kind, c), NoExpr, NoOrder, NoneIdx, NoneIdx) :
        kind \in {"Inner", "Left"}, c \in JoinConds}

\* SELECT * FROM A INNER|LEFT JOIN B ON c [ORDER BY A.k DESC] [LIMIT 1] [OFFSET 1]
WindowJoinQueries ==
    {SelectStmt(<<Wildcard>>, FromA, JoinB(kind, c), NoExpr, ob, l, o) :
        kind \in {"Inner", "Left"},
        c \in {Eq(Column("A", "k"), Column("B", "k")), Lit("true")},
        ob \in {NoOrder, OrderBy(Column("A", "k"), "Desc")},
        l \in {NoneIdx, 1}, o \in {NoneIdx, 1}}

JoinQueries == PlainJoinQueries \cup WindowJoinQueries

\* SELECT aggregates FROM A [WHERE p] [ORDER BY 1] [LIMIT l] [OFFSET 1]
AggQueries ==
    {SelectStmt(cs, FromA, <<>>, p, ob, l, o) :
        cs \in AggCols,
        p \in {NoExpr, Eq(Column(NoName, "k"), Lit("1")), Lit("false")},
        ob \in {NoOrder, OrderBy(ColIdx(1), "Asc")},
        l \in {NoneIdx, 0, 1}, o \in {NoneIdx, 1}}

\* SELECT count(*) FROM A INNER|LEFT JOIN B ON c
AggJoinQueries ==
    {SelectStmt(<<ColExpr(CountStar)>>, FromA, JoinB(kind, c), NoExpr, NoOrder, NoneIdx, NoneIdx) :
        kind \in {"Inner", "Left"},
        c \in {Eq(Column("A", "k"), Column("B", "k")), Lit("true")}}

\* statements that name a table C, which no catalog holds:
\* SELECT 'x' FROM C [ORDER BY 'x']   and   SELECT 'x' FROM A INNER|LEFT JOIN C ON 'true'
MissingTableQueries ==
    {SelectStmt(<<ColExpr(Lit("x"))>>, TableSpecifier("C", NoName), <<>>, NoExpr, ob,
                NoneIdx, NoneIdx) : ob \in {NoOrder, OrderBy(Lit("x"), "Asc")}}
    \cup {SelectStmt(<<ColExpr(Lit("x"))>>, FromA,
                     <<JoinClause(kind, TableSpecifier("C", NoName), Lit("true"))>>,
                     NoExpr, NoOrder, NoneIdx, NoneIdx) : kind \in {"Inner", "Left"}}

\* statements with the unqualified column k, which both A and B have:
\* SELECT k FROM A INNER JOIN B ON A.k = B.k,  SELECT * FROM A INNER JOIN B ON k = '1',
\* SELECT A.id FROM A LEFT JOIN B ON A.k = B.k WHERE k = '1'
AmbiguousQueries ==
    {SelectStmt(<<ColExpr(Column(NoName, "k"))>>, FromA,
                JoinB("Inner", Eq(Column("A", "k"), Column("B", "k"))),
                NoExpr, NoOrder, NoneIdx, NoneIdx),
     SelectStmt(<<Wildcard>>, FromA, JoinB("Inner", Eq(Column(NoName, "k"), Lit("1"))),
                NoExpr, NoOrder, NoneIdx, NoneIdx),
     SelectStmt(<<ColExpr(Column("A", "id"))>>, FromA,
                JoinB("Left", Eq(Column("A", "k"), Column("B", "k"))),
                Eq(Column(NoName, "k"), Lit("1")), NoOrder, NoneIdx, NoneIdx)}

\* SELECT * FROM A LEFT JOIN B ON A.k = B.k WHERE B.k = '1' | A.k = '1'
LeftJoinWhereQueries ==
    {SelectStmt(<<Wildcard>>, FromA, JoinB("Left", Eq(Column("A", "k"), Column("B", "k"))),
                Eq(Column(t, "k"), Lit("1")), NoOrder, NoneIdx, NoneIdx) : t \in {"A", "B"}}

\* SELECT * FROM A INNER|LEFT JOIN B ON A.zz = B.k: no table has a column zz
UnresolvedOnQueries ==
    {SelectStmt(<<Wildcard>>, FromA, JoinB(kind, Eq(Column("A", "zz"), Column("B", "k"))),
                NoExpr, NoOrder, NoneIdx, NoneIdx) : kind \in {"Inner", "Left"}}

ErrorQueries ==
    MissingTableQueries \cup AmbiguousQueries \cup LeftJoinWhereQueries \cup UnresolvedOnQueries

\* SELECT k FROM A ORDER BY i, for the positions 0, 1, 2 (the appended sort key itself) and 3
PositionalQueries ==
    {SelectStmt(<<ColExpr(Column(NoName, "k"))>>, FromA, <<>>, NoExpr, OrderBy(ColIdx(i), "Asc"),
                NoneIdx, NoneIdx) : i \in 0..3}

\* SELECT * FROM A AS x INNER JOIN A AS y ON 'true' | x.k = y.k
SelfJoinQueries ==
    {SelectStmt(<<Wildcard>>, TableSpecifier("A", "x"),
                <<JoinClause("Inner", TableSpecifier("A", "y"), c)>>,
                NoExpr, NoOrder, NoneIdx, NoneIdx) :
        c \in {Lit("true"), Eq(Column("x", "k"), Column("y", "k"))}}

\* statements with two joins, the third table being B under the alias C:
\* SELECT A.id, B.bid, C.bid FROM A INNER JOIN B ON A.k = B.k LEFT JOIN B AS C ON C.k = A.k
\* SELECT A.id, B.bid, C.bid FROM A LEFT JOIN B ON A.k = B.k INNER JOIN B AS C ON C.k = '1'
TwoJoinQueries ==
    {SelectStmt(<<ColExpr(Column("A", "id")), ColExpr(Column("B", "bid")),
                  ColExpr(Column("C", "bid"))>>,
                FromA, j, NoExpr, NoOrder, NoneIdx, NoneIdx) :
        j \in {<<JoinClause("Inner", TableSpecifier("B", NoName),
                            Eq(Column("A", "k"), Column("B", "k"))),
                 JoinClause("Left", TableSpecifier("B", "C"),
                            Eq(Column("C", "k"), Column("A", "k")))>>,
               <<JoinClause("Left", TableSpecifier("B", NoName),
                            Eq(Column("A", "k"), Column("B", "k"))),
                 JoinClause("Inner", TableSpecifier("B", "C"),
                            Eq(Column("C", "k"), Lit("1")))>>}}

Queries ==
    WhereQueries \cup LimitQueries \cup JoinQueries \cup AggQueries \cup AggJoinQueries
        \cup ErrorQueries \cup PositionalQueries \cup SelfJoinQueries \cup TwoJoinQueries

\* the catalogs a statement is run against: B varies only when it is joined
Databases(q) ==
    {[A |-> a, B |-> b] :
        a \in TablesA,
        b \in IF q.join = <<>> THEN {MakeTable("B", <<"bid", "k">>, <<>>)} ELSE TablesB}

\* ---------------------------------------------------------------- parser
\* The expression parser of parser.rs over the lexemes of the source text: a
\* quoted string ('..'), a word (letters, digits, underscores) or a symbol.
\* White space between lexemes is skipped by every combinator (multispace0).
Str(text) == [kind |-> "str", text |-> text]
Word(text) == [kind |-> "word", text |-> text]
Sym(text) == [kind |-> "sym", text |-> text]

\* IResult: Ok((rest, expr)) with rest the position of the next lexeme, or Err at a position
PRes(e, rest) == [ok |-> TRUE, expr |-> e, rest |-> rest]
PErr(i) == [ok |-> FALSE, expr |-> NoExpr, rest |-> i]

\* the spellings tag_no_case(word) accepts, for the keywords of expressions
NoCase(word) ==
    CASE word = "AND" -> {"AND", "ANd", "AnD", "And", "aND", "aNd", "anD", "and"}
      [] word = "OR" -> {"OR", "Or", "oR", "or"}
      [] word = "NOT" -> {"NOT", "NOt", "NoT", "Not", "nOT", "nOt", "noT", "not"}

\* delimited(multispace0, tag_no_case(word), multispace0) at lexeme i
TagNoCase(toks, i, word) ==
    i <= Len(toks) /\ toks[i].kind = "word" /\ toks[i].text \in NoCase(word)

\* delimited(multispace0, tag(sym), multispace0) at lexeme i
Tag(toks, i, sym) == i <= Len(toks) /\ toks[i].kind = "sym" /\ toks[i].text = sym

\* comparison_op: the BinOp of the symbol at lexeme i, or "" when it is none
comparison_op(toks, i) ==
    IF i > Len(toks) \/ toks[i].kind # "sym" THEN ""
    ELSE CASE toks[i].text = "=" -> "Eq" [] toks[i].text = "<>" -> "Ne"
           [] toks[i].text = "<" -> "Lt" [] toks[i].text = ">" -> "Gt"
           [] toks[i].text = "<=" -> "Le" [] toks[i].text = ">=" -> "Ge"
           [] OTHER -> ""

\* ident: any word but FROM
ident(toks, i) == i <= Len(toks) /\ toks[i].kind = "word" /\ toks[i].text # "FROM"

\* column: [ident .] ident
column(toks, i) ==
    IF ident(toks, i) /\ Tag(toks, i + 1, ".")
    THEN IF ident(toks, i + 2)
         THEN PRes(Column(toks[i].text, toks[i + 2].text), i + 3)
         ELSE PErr(i + 2)
    ELSE IF ident(toks, i) THEN PRes(Column(NoName, toks[i].text), i + 1)
    ELSE PErr(i)

RECURSIVE expression(_, _)
RECURSIVE logical_ex(_, _)
RECURSIVE LogicalFold(_, _, _)
RECURSIVE comparison_ex(_, _)
RECURSIVE not(_, _)
RECURSIVE term(_, _)
RECURSIVE parentheses(_, _)

expression(toks, i) == logical_ex(toks, i)

\* fold_many0(pair(AND | OR, comparison_ex), lhs, Binary) from lexeme r on
LogicalFold(toks, acc, r) ==
    IF TagNoCase(toks, r, "AND") \/ TagNoCase(toks, r, "OR")
    THEN Bind(comparison_ex(toks, r + 1),
              LAMBDA sub_ex :
                 IF ~sub_ex.ok THEN PRes(acc, r)
                 ELSE LogicalFold(toks,
                                  Binary(IF TagNoCase(toks, r, "AND") THEN "And" ELSE "Or",
                                         acc, sub_ex.expr),
                                  sub_ex.rest))
    ELSE PRes(acc, r)

logical_ex(toks, i) ==
    Bind(comparison_ex(toks, i),
         LAMBDA lhs : IF ~lhs.ok THEN lhs ELSE LogicalFold(toks, lhs.expr, lhs.rest))

\* comparison_ex after its left term
ComparisonRest(toks, lhs) ==
    IF ~lhs.ok THEN lhs
    ELSE IF comparison_op(toks, lhs.rest) = "" THEN lhs
    ELSE Bind(term(toks, lhs.rest + 1),
              LAMBDA rhs :
                 IF ~rhs.ok THEN rhs
                 ELSE PRes(Binary(comparison_op(toks, lhs.rest), lhs.expr, rhs.expr),
                           rhs.rest))

comparison_ex(toks, i) == ComparisonRest(toks, term(toks, i))

not(toks, i) ==
    IF ~TagNoCase(toks, i, "NOT") THEN PErr(i)
    ELSE Bind(comparison_ex(toks, i + 1),
              LAMBDA res : IF ~res.ok THEN res ELSE PRes(Unary("Not", res.expr), res.rest))

parentheses(toks, i) ==
    IF ~Tag(toks, i, "(") THEN PErr(i)
    ELSE Bind(expression(toks, i + 1),
              LAMBDA res :
                 IF ~res.ok THEN res
                 ELSE IF ~Tag(toks, res.rest, ")") THEN PErr(res.rest)
                 ELSE PRes(res.expr, res.rest + 1))

\* str_literal at lexeme i
str_literal(toks, i) == i <= Len(toks) /\ toks[i].kind = "str"

\* term: the first of not, parentheses, str_literal, column that succeeds
term(toks, i) ==
    Bind(not(toks, i),
         LAMBDA n :
            IF n.ok THEN n
            ELSE Bind(parentheses(toks, i),
                      LAMBDA par :
                         IF par.ok THEN par
                         ELSE IF str_literal(toks, i)
                         THEN PRes(StrLiteral(toks[i].text), i + 1)
                         ELSE IF column(toks, i).ok THEN column(toks, i)
                         ELSE PErr(i)))

\* the lexemes the parser is run on
MaxTokens == 5
Lexemes ==
    {Str("1"), Str("2"), Str("3"), Word("AND"), Word("OR"), Word("not"),
     Sym("<"), Sym("("), Sym(")")}
\* every text of up to n lexemes
Sources(n) == SeqsUpTo(Lexemes, n)

\* ---------------------------------------------------------------- CSV ingestion
\* csv.rs and make_table over a text given as the sequence of its characters;
\* a parser takes the text and the position (1-based) of the next character,
\* and returns the value and the position after it, or an error.
Quote == "\""
Comma == ","
Newline == "\n"
Space == " "

CRes(v, rest) == [ok |-> TRUE, val |-> v, rest |-> rest]
CErr(i) == [ok |-> FALSE, val |-> <<>>, rest |-> i]

RECURSIVE multispace0(_, _)
\* multispace0: the position after the white space (space, newline) at i
multispace0(t, i) ==
    IF i <= Len(t) /\ t[i] \in {Space, Newline} THEN multispace0(t, i + 1) ELSE i

RECURSIVE ManyNoneOf(_, _, _)
\* many0(none_of(stops)): the position after the run at i of characters not in stops
ManyNoneOf(t, i, stops) ==
    IF i <= Len(t) /\ t[i] \notin stops THEN ManyNoneOf(t, i + 1, stops) ELSE i

\* the rest of quoted_cell, from the position start of the opening quote
QuotedFrom(t, start) ==
    IF start > Len(t) \/ t[start] # Quote THEN CErr(start)
    ELSE Bind(ManyNoneOf(t, start + 1, {Quote, Newline}),
              LAMBDA end : IF end > Len(t) \/ t[end] # Quote THEN CErr(end)
                           ELSE CRes(SubSeq(t, start + 1, end - 1), end + 1))

quoted_cell(t, i) == QuotedFrom(t, multispace0(t, i))

\* the value of unquoted_cell, given the end of its run
UnquotedTo(t, i, end) == IF end = i THEN CErr(i) ELSE CRes(SubSeq(t, i, end - 1), end)

unquoted_cell(t, i) == UnquotedTo(t, i, ManyNoneOf(t, i, {Quote, Comma, Newline}))

\* alt((quoted_cell, unquoted_cell))
cell(t, i) ==
    Bind(quoted_cell(t, i), LAMBDA q : IF q.ok THEN q ELSE unquoted_cell(t, i))

RECURSIVE LineFold(_, _, _)
\* fold_many0(pair(delimited(multispace0, tag(","), multispace0), cell)) from r on
LineFold(t, acc, r) ==
    Bind(multispace0(t, r),
         LAMBDA c :
            IF c > Len(t) \/ t[c] # Comma THEN CRes(acc, r)
            ELSE Bind(cell(t, multispace0(t, c + 1)),
                      LAMBDA next : IF ~next.ok THEN CRes(acc, r)
                                    ELSE LineFold(t, Append(acc, next.val), next.rest)))

\* line: the cells of one record
line(t, i) ==
    Bind(cell(t, i), LAMBDA first : IF ~first.ok THEN first
                                    ELSE LineFold(t, <<first.val>>, first.rest))

RECURSIVE CsvFold(_, _, _)
\* fold_many0(pair(tag("\n"), line)) from r on
CsvFold(t, acc, r) ==
    IF r > Len(t) \/ t[r] # Newline THEN CRes(acc, r)
    ELSE Bind(line(t, r + 1),
              LAMBDA row : IF ~row.ok THEN CRes(acc, r)
                           ELSE CsvFold(t, Append(acc, row.val), row.rest))

\* csv: the records of the text
csv(t, i) ==
    Bind(line(t, i), LAMBDA first : IF ~first.ok THEN first
                                    ELSE CsvFold(t, <<first.val>>, first.rest))

\* parse_csv: the records, whatever text is left over
parse_csv(src) == csv(src, 1)

RECURSIVE TrimStart(_)
RECURSIVE TrimEnd(_)
\* str::trim, front and back
TrimStart(chars) ==
    IF chars # <<>> /\ chars[1] \in {Space, Newline} THEN TrimStart(Tail(chars)) ELSE chars
TrimEnd(chars) ==
    IF chars # <<>> /\ chars[Len(chars)] \in {Space, Newline}
    THEN TrimEnd(SubSeq(chars, 1, Len(chars) - 1)) ELSE chars

RECURSIVE ToStr(_)
\* the String of a sequence of characters
ToStr(chars) == IF chars = <<>> THEN "" ELSE chars[1] \o ToStr(Tail(chars))

\* cell.trim().to_string()
Trimmed(chars) == ToStr(TrimEnd(TrimStart(chars)))

TableOk(table) == [ok |-> TRUE, table |-> table]
TableErr == [ok |-> FALSE, table |-> Table("", <<>>, <<>>)]

RECURSIVE PushRecords(_, _, _, _)
\* for record in &csv[1..] { .. }: records from number n on, data being what was pushed
PushRecords(records, ncols, data, n) ==
    IF n > Len(records) THEN [ok |-> TRUE, data |-> data]
    ELSE IF Len(records[n]) = 0 THEN PushRecords(records, ncols, data, n + 1)
    ELSE IF Len(records[n]) # ncols THEN [ok |-> FALSE, data |-> data]
    ELSE PushRecords(records, ncols,
                     data \o [c \in 1..Len(records[n]) |-> Trimmed(records[n][c])], n + 1)

\* make_table after parse_csv
TableOf(name, records) ==
    IF ~records.ok THEN TableErr
    ELSE Bind([c \in 1..Len(records.val[1]) |-> Trimmed(records.val[1][c])],
              LAMBDA schema :
                 Bind(PushRecords(records.val, Len(schema), <<>>, 2),
                      LAMBDA pushed : IF ~pushed.ok THEN TableErr
                                      ELSE TableOk(Table(name, schema, pushed.data))))

make_table(name, src) == TableOf(name, parse_csv(src))

\* the texts make_table is run on: up to n characters
MaxChars == 6
Chars == {"a", Comma, Newline, Space, Quote}
CsvTexts(n) == SeqsUpTo(Chars, n)

\* the tables Table::get is run on: 0..MaxRows rows of 1..MaxCols columns, cell n
\* of the row-major data holding the numeral n - 1, so that every cell differs
MaxCols == 2
GetTables(maxRows, maxCols) ==
    {Table("T", [c \in 1..nc |-> "c" \o ToString(c)], [n \in 1..(nr * nc) |-> ToString(n - 1)]) :
        nr \in 0..maxRows, nc \in 1..maxCols}

\* the row counts incr_row_cursor is run on: one to MaxTables tables of 0..MaxRows rows
MaxTables == 3
RowCountSeqs == SeqsUpTo(0..MaxRows, MaxTables) \ {<<>>}

\* ---------------------------------------------------------------- state machine
\* one call of exec_select
VARIABLES db, sql, pc, cols, row_cursor, printed_rows, results, out, buf, ret, visited
\* one call of expression: the lexemes and the result
VARIABLES source, parsed
\* one loop over incr_row_cursor: the row counts, the cursors, the cursor
\* positions reached so far in order, and whether the last call returned true
VARIABLES counts, cur, trail, more
\* one call of Table::get: the table, the arguments <<row, col>> and the result
VARIABLES self, asked, got
\* one call of make_table: the text and the result
VARIABLES content, made

vars ==
    <<db, sql, pc, cols, row_cursor, printed_rows, results, out, buf, ret, visited,
      source, parsed, counts, cur, trail, more, self, asked, got, content, made>>

\* no call of expression and no cursor loop is under way
Unparsed == PErr(0)
ParserIdle == source = <<>> /\ parsed = Unparsed
CursorIdle == counts = <<>> /\ cur = <<>> /\ trail = <<>> /\ more = FALSE
\* Table::get has not returned
NotAsked == [some |-> FALSE, val |-> "?"]
GetIdle == self = Table("T", <<"c1">>, <<>>) /\ asked = <<0, 0>> /\ got = NotAsked
\* make_table has not returned
NotMade == [ok |-> FALSE, table |-> Table("?", <<>>, <<>>)]
CsvIdle == content = <<>> /\ made = NotMade

\* the state of the call as a record
State ==
    [pc |-> pc, cols |-> cols, row_cursor |-> row_cursor, printed_rows |-> printed_rows,
     results |-> results, out |-> out, buf |-> buf, ret |-> ret, visited |-> visited]

\* the call moves to state s
Becomes(s) ==
    /\ pc' = s.pc
    /\ cols' = s.cols
    /\ row_cursor' = s.row_cursor
    /\ printed_rows' = s.printed_rows
    /\ results' = s.results
    /\ out' = s.out
    /\ buf' = s.buf
    /\ ret' = s.ret
    /\ visited' = s.visited
    /\ UNCHANGED <<db, sql, source, parsed, counts, cur, trail, more, self, asked, got,
                   content, made>>

Init ==
    /\ sql \in Queries
    /\ db \in Databases(sql)
    /\ pc = InitState.pc
    /\ cols = InitState.cols
    /\ row_cursor = InitState.row_cursor
    /\ printed_rows = InitState.printed_rows
    /\ results = InitState.results
    /\ out = InitState.out
    /\ buf = InitState.buf
    /\ ret = InitState.ret
    /\ visited = InitState.visited
    /\ ParserIdle
    /\ CursorIdle
    /\ GetIdle
    /\ CsvIdle

ExecSelect == pc = "start" /\ Becomes(ExecSelectStart(db, sql, State))
MainLoop == pc = "main" /\ Becomes(MainLoopStep(db, sql, State))
AggLoop == pc = "agg" /\ Becomes(AggLoopStep(db, sql, State))
AggEmit == pc = "agg_emit" /\ Becomes(AggEmitStep(db, sql, State))
SortAndOutput == pc = "sort" /\ Becomes(SortStep(db, sql, State))

Next == ExecSelect \/ MainLoop \/ AggLoop \/ AggEmit \/ SortAndOutput

Spec == Init /\ [][Next]_vars

\* no call of exec_select is under way
CallIdle ==
    /\ db = [A |-> MakeTable("A", <<"id", "k">>, <<>>), B |-> MakeTable("B", <<"bid", "k">>, <<>>)]
    /\ sql = SelectStmt(<<Wildcard>>, FromA, <<>>, NoExpr, NoOrder, NoneIdx, NoneIdx)
    /\ pc = "idle"
    /\ cols = InitState.cols
    /\ row_cursor = InitState.row_cursor
    /\ printed_rows = InitState.printed_rows
    /\ results = InitState.results
    /\ out = InitState.out
    /\ buf = InitState.buf
    /\ ret = InitState.ret
    /\ visited = InitState.visited

\* ---- the parser run on a source text
ParserInit ==
    source \in Sources(MaxTokens) /\ parsed = Unparsed /\ CallIdle /\ CursorIdle /\ GetIdle
        /\ CsvIdle

\* expression(source)
Parse ==
    /\ parsed = Unparsed
    /\ parsed' = expression(source, 1)
    /\ UNCHANGED <<db, sql, pc, cols, row_cursor, printed_rows, results, out, buf, ret,
                   visited, source, counts, cur, trail, more, self, asked, got,
                   content, made>>

ParserNext == Parse

ParserSpec == ParserInit /\ [][ParserNext]_vars

\* ---- the loop over incr_row_cursor, as both loops of exec_select_sub run it
CursorInit ==
    /\ counts \in RowCountSeqs
    /\ cur = [i \in 1..Len(counts) |-> NewRowCursor]
    /\ trail = <<[i \in 1..Len(counts) |-> 0]>>
    /\ more = TRUE
    /\ CallIdle
    /\ ParserIdle
    /\ GetIdle
    /\ CsvIdle

\* if !incr_row_cursor(&mut row_cursor, &row_counts) { break }
IncrRowCursor ==
    /\ more
    /\ cur' = incr_row_cursor(cur, counts).cursor
    /\ more' = incr_row_cursor(cur, counts).valid
    /\ trail' = IF incr_row_cursor(cur, counts).valid
                THEN Append(trail, CursorRows(incr_row_cursor(cur, counts).cursor))
                ELSE trail
    /\ UNCHANGED <<db, sql, pc, cols, row_cursor, printed_rows, results, out, buf, ret,
                   visited, source, parsed, counts, self, asked, got,
                   content, made>>

\* for rc in row_cursor.iter_mut() { rc.shown = true }: the main loop printed a row
MarkShown ==
    /\ more
    /\ \E i \in 1..Len(cur) : ~cur[i].shown
    /\ cur' = [i \in 1..Len(cur) |-> RowCursor(cur[i].row, TRUE)]
    /\ UNCHANGED <<db, sql, pc, cols, row_cursor, printed_rows, results, out, buf, ret,
                   visited, source, parsed, counts, trail, more, self, asked, got,
                   content, made>>

CursorNext == IncrRowCursor \/ MarkShown

\* the loops call incr_row_cursor at the end of every iteration
CursorSpec == CursorInit /\ [][CursorNext]_vars /\ WF_vars(IncrRowCursor)

\* ---- one call of Table::get
GetInit ==
    /\ self \in GetTables(MaxRows, MaxCols)
    /\ asked \in (0..(MaxRows + 1)) \X (0..(MaxCols + 1))
    /\ got = NotAsked
    /\ CallIdle
    /\ ParserIdle
    /\ CursorIdle
    /\ CsvIdle

\* self.get(row, col)
Get ==
    /\ got = NotAsked
    /\ got' = TableGet(self, asked[1], asked[2])
    /\ UNCHANGED <<db, sql, pc, cols, row_cursor, printed_rows, results, out, buf, ret,
                   visited, source, parsed, counts, cur, trail, more, self, asked, content,
                   made>>

GetNext == Get

GetSpec == GetInit /\ [][GetNext]_vars

\* ---- one call of make_table
CsvInit ==
    /\ content \in CsvTexts(MaxChars)
    /\ made = NotMade
    /\ CallIdle
    /\ ParserIdle
    /\ CursorIdle
    /\ GetIdle

\* make_table("T", content)
MakeTableCall ==
    /\ made = NotMade
    /\ made' = make_table("T", content)
    /\ UNCHANGED <<db, sql, pc, cols, row_cursor, printed_rows, results, out, buf, ret,
                   visited, source, parsed, counts, cur, trail, more, self, asked, got,
                   content>>

CsvNext == MakeTableCall

CsvSpec == CsvInit /\ [][CsvNext]_vars

\* ---------------------------------------------------------------- properties
\* the call has returned (or, for "Panic" and "StackOverflow", has died)
Done == pc = "done"

\* the rows of a sink after the header row
DataRows(o) == IF Len(o) = 0 THEN <<>> ELSE Tail(o)

\* the cells of stored row r (0-based) of a table, and all stored rows in storage order
StoredRow(table, r) ==
    [c \in 1..Len(table.schema) |-> table.data[r * Len(table.schema) + c]]
StoredRows(table) == [n \in 1..RowCount(table) |-> StoredRow(table, n - 1)]

\* shapes of the statement
SingleTable == sql.join = <<>>
NoWindow == sql.ordering = NoOrder /\ sql.limit = NoneIdx /\ sql.offset = NoneIdx
SelectStar == sql.cols = <<Wildcard>>
Aggregated ==
    \E i \in 1..Len(sql.cols) :
        sql.cols[i] # Wildcard /\ find_aggregate_fn(sql.cols[i].expr)
JoinOf(kind) == Len(sql.join) = 1 /\ sql.join[1].kind = kind

\* the cursor that points table i at its stored row rows[i]
At(rows) == [i \in 1..Len(rows) |-> RowCursor(rows[i], FALSE)]

\* expr, evaluated at the stored rows `rows`, is a value that coerces to true
HoldsAt(expr, rows) ==
    Bind(eval_expr(expr, <<0>>, ExpandedExprs(QueryContext(db, sql), sql),
                   QueryContext(db, sql), At(rows), AggregateResult, MaxDepth),
         LAMBDA v : v.ok /\ coerce_bool(v.val))

\* the projection evaluated at the stored rows `rows`
ProjectedAt(rows) ==
    EvalRow(QueryContext(db, sql), ExpandedExprs(QueryContext(db, sql), sql), At(rows),
            AggregateResult, 1).row

\* the stored rows of A (0-based numbers) that qualify under WHERE, in storage order
Qualifying ==
    SelectSeq([n \in 1..RowCount(db.A) |-> n - 1],
              LAMBDA r : sql.condition = NoExpr \/ HoldsAt(sql.condition, <<r>>))

\* the pairs (a, b) of stored rows of A and B, A-major, and those the ON condition accepts
Pairs ==
    [n \in 1..(RowCount(db.A) * RowCount(db.B)) |->
        <<(n - 1) \div RowCount(db.B), (n - 1) % RowCount(db.B)>>]
Matching == SelectSeq(Pairs, LAMBDA p : HoldsAt(sql.join[1].condition, p))

\* row a of A followed by empty cells for the columns of B
Padded(a) == StoredRow(db.A, a) \o [c \in 1..Len(db.B.schema) |-> ""]

\* the number of times row occurs among rows
Count(rows, row) == Cardinality({n \in 1..Len(rows) : rows[n] = row})

\* C1: SELECT * FROM T returns successfully, also for a table with zero rows,
\* and emits the header followed by the stored rows of T in storage order.
C1_SelectStarEmitsStoredRows ==
    (Done /\ SelectStar /\ SingleTable /\ sql.condition = NoExpr /\ NoWindow)
        => (ret = "Ok" /\ out = <<db.A.schema>> \o StoredRows(db.A))

\* C2: a single-table query with WHERE p and no ORDER BY, LIMIT or aggregate
\* emits exactly the rows of T whose p coerces to true, once each, in storage order.
C2_WhereEmitsQualifyingRows ==
    (Done /\ SingleTable /\ sql.condition # NoExpr /\ NoWindow /\ ~Aggregated)
        => DataRows(out) = [n \in 1..Len(Qualifying) |-> ProjectedAt(<<Qualifying[n]>>)]

\* C3: A INNER JOIN B ON c emits exactly the pairs (a, b) for which c coerces
\* to true, once each, A-major; no row when c is false for every pair.
C3_InnerJoinEmitsMatchingPairs ==
    (Done /\ SelectStar /\ JoinOf("Inner") /\ sql.condition = NoExpr /\ NoWindow)
        => DataRows(out) =
              [n \in 1..Len(Matching) |->
                  StoredRow(db.A, Matching[n][1]) \o StoredRow(db.B, Matching[n][2])]

\* C4: SELECT * FROM A LEFT JOIN B ON c with c false for every pair of rows
\* (A or B may have zero rows) returns successfully and emits one row per row
\* of A, in order, with empty cells for B.
C4_LeftJoinWithoutMatchPadsEveryRow ==
    (Done /\ SelectStar /\ JoinOf("Left") /\ sql.condition = NoExpr /\ NoWindow
          /\ Len(Matching) = 0)
        => (ret = "Ok"
            /\ DataRows(out) = [n \in 1..RowCount(db.A) |-> Padded(n - 1)])

\* C5: in a LEFT JOIN without LIMIT (and OFFSET) that returns successfully, the
\* padded row of a row a of A is emitted exactly once when no row of B
\* satisfies c with a, and not at all otherwise.
C5_PaddedRowIffNoMatch ==
    (Done /\ ret = "Ok" /\ SelectStar /\ JoinOf("Left") /\ sql.condition = NoExpr
          /\ sql.limit = NoneIdx /\ sql.offset = NoneIdx)
        => \A a \in 0..(RowCount(db.A) - 1) :
              Count(DataRows(out), Padded(a)) =
                  IF \E n \in 1..Len(Matching) : Matching[n][1] = a THEN 0 ELSE 1

\* C6: SELECT count(*) FROM T [WHERE p] returns successfully and its single
\* cell is the number of rows of T that qualify, 0 included.
C6_CountStarCountsQualifyingRows ==
    (Done /\ sql.cols = <<ColExpr(CountStar)>> /\ SingleTable /\ NoWindow)
        => (ret = "Ok" /\ DataRows(out) = << <<ToString(Len(Qualifying))>> >>)

\* every combination of stored rows of the tables of the statement
CursorSpace ==
    IF SingleTable THEN {<<a>> : a \in 0..(RowCount(db.A) - 1)}
    ELSE {<<a, b>> : a \in 0..(RowCount(db.A) - 1), b \in 0..(RowCount(db.B) - 1)}

\* C7: an aggregated query (here without LIMIT and OFFSET) that returns
\* successfully emits exactly one data row, and emits it only after every
\* combination of rows has been iterated; no data row exists during the loop.
C7_OneRowAfterWholeIteration ==
    /\ (Aggregated /\ pc = "agg") => Len(DataRows(out)) = 0 /\ Len(buf) = 0
    /\ (Done /\ ret = "Ok" /\ Aggregated /\ sql.limit = NoneIdx /\ sql.offset = NoneIdx)
          => (Len(DataRows(out)) = 1 /\ CursorSpace \subseteq visited)

\* the orders in which n rows can be stored
Perms(n) == {p \in [1..n -> 1..n] : \A i, j \in 1..n : p[i] = p[j] => i = j}

\* the table with row p[i] of table stored as row i
PermuteRows(table, p) ==
    Table(table.name, table.schema,
          [m \in 1..Len(table.data) |->
              table.data[(p[(m - 1) \div Len(table.schema) + 1] - 1) * Len(table.schema)
                         + ((m - 1) % Len(table.schema)) + 1]])

\* the cells of the emitted row whose column is an aggregate call (none when no
\* row was emitted)
AggCells(o) ==
    IF Len(o) < 2 THEN <<>>
    ELSE SelectSeq([i \in 1..Len(sql.cols) |-> <<i, o[2][i]>>],
                   LAMBDA c : find_aggregate_fn(sql.cols[c[1]].expr))

\* C8: storing the rows of the tables in another order does not change the
\* cells of count, sum, avg, min and max, for a single table or a join.
C8_AggregatesIgnoreRowOrder ==
    (Done /\ Aggregated)
        => \A pa \in Perms(RowCount(db.A)), pb \in Perms(RowCount(db.B)) :
              AggCells(exec_select([A |-> PermuteRows(db.A, pa),
                                    B |-> PermuteRows(db.B, pb)], sql).out)
                  = AggCells(out)

\* C9: with LIMIT k, at most k data rows are emitted (plain, joined, ordered
\* or aggregated); with LIMIT 0, none.
C9_LimitBoundsRows == sql.limit # NoneIdx => Len(DataRows(out)) <= sql.limit

\* rows j+1 .. j+k of rows (positions [j, j+k) counted from 0), as far as they exist
Window(rows, j, k) ==
    [n \in 1..(IF Len(rows) <= j THEN 0 ELSE IF Len(rows) - j < k THEN Len(rows) - j ELSE k)
        |-> rows[j + n]]

\* the data rows of the same statement without LIMIT and OFFSET
Unwindowed ==
    DataRows(exec_select(db, [sql EXCEPT !.limit = NoneIdx, !.offset = NoneIdx]).out)

\* C10: for a non-aggregated query, with or without ORDER BY, the rows under
\* LIMIT k OFFSET j are the rows at positions [j, j+k) of the rows the same
\* query emits without LIMIT and OFFSET.
C10_LimitOffsetIsAWindow ==
    (Done /\ ~Aggregated /\ sql.limit # NoneIdx)
        => DataRows(out) =
              Window(Unwindowed, IF sql.offset = NoneIdx THEN 0 ELSE sql.offset, sql.limit)

\* C10 happens: an ordered join under LIMIT 1 OFFSET 1 whose unwindowed result
\* has rows before and after the window
C10_Witness ==
    /\ Done /\ ret = "Ok" /\ ~Aggregated /\ sql.ordering # NoOrder
    /\ sql.limit = 1 /\ sql.offset = 1
    /\ Len(Unwindowed) >= 3
    /\ DataRows(out) = <<Unwindowed[2]>>
    /\ Unwindowed[1] # Unwindowed[2]

\* the data rows of the same statement without ORDER BY, and of the same
\* statement without ORDER BY whose projection ends with the sort key
Unordered == DataRows(exec_select(db, [sql EXCEPT !.ordering = NoOrder]).out)
Keyed ==
    DataRows(exec_select(db, [sql EXCEPT !.cols = Append(@, ColExpr(sql.ordering.expr)),
                                         !.ordering = NoOrder]).out)

\* the sorted rows of the same statement: ORDER BY kept, LIMIT and OFFSET cleared
Sorted == DataRows(exec_select(db, [sql EXCEPT !.limit = NoneIdx, !.offset = NoneIdx]).out)

\* C11: with ORDER BY and OFFSET j but no LIMIT, the emitted rows are the
\* sorted rows without the first j.
C11_OffsetWithoutLimitSkipsSortedRows ==
    (Done /\ ~Aggregated /\ sql.ordering # NoOrder /\ sql.limit = NoneIdx
          /\ sql.offset # NoneIdx)
        => DataRows(out) = Window(Sorted, sql.offset, Len(Sorted))

\* the key of keyed row i sorts before that of keyed row j (byte order of the
\* key, reversed for DESC)
KeyBefore(keyed, i, j) ==
    IF sql.ordering.ordering = "Desc"
    THEN StrRank(keyed[i][Len(keyed[i])]) > StrRank(keyed[j][Len(keyed[j])])
    ELSE StrRank(keyed[i][Len(keyed[i])]) < StrRank(keyed[j][Len(keyed[j])])

\* the place (1-based) of row i in the stable order of the keyed rows: after the
\* rows with a key that sorts before its own and the earlier rows with an equal key
StablePlace(keyed, i) ==
    1 + Cardinality({j \in 1..Len(keyed) : KeyBefore(keyed, j, i)})
      + Cardinality({j \in 1..(i - 1) : ~KeyBefore(keyed, j, i) /\ ~KeyBefore(keyed, i, j)})

\* C12: for a non-aggregated query with ORDER BY e and no LIMIT/OFFSET, the
\* data rows are the rows of the query without ORDER BY, rearranged by string
\* comparison of e (reversed for DESC), rows with equal keys in their old order.
C12_OrderByIsAStableSort ==
    (Done /\ ~Aggregated /\ sql.ordering # NoOrder /\ sql.limit = NoneIdx
          /\ sql.offset = NoneIdx)
        => /\ Len(Keyed) = Len(Unordered)
           /\ Len(DataRows(out)) = Len(Unordered)
           /\ \A i \in 1..Len(Keyed) :
                 /\ SubSeq(Keyed[i], 1, Len(Keyed[i]) - 1) = Unordered[i]
                 /\ DataRows(out)[StablePlace(Keyed, i)] = Unordered[i]

\* the statement names a table that the catalog does not hold
NamesMissingTable == \E i \in 1..Len(TableNames(sql)) : TableNames(sql)[i] \notin DOMAIN db

\* C13: when the FROM table or a JOIN table is absent from the catalog, the
\* call returns the table-not-found error and nothing, not even the header,
\* has reached the sink.
C13_MissingTableFailsBeforeOutput ==
    NamesMissingTable => (out = <<>> /\ buf = <<>> /\ (Done => ret = "TableNotFound"))

\* C13 happens: a call has returned for a statement whose JOIN table is absent
C13_Witness ==
    /\ Done /\ ret = "TableNotFound"
    /\ sql.table.name \in DOMAIN db
    /\ sql.join # <<>> /\ sql.join[1].table.name \notin DOMAIN db

RECURSIVE AmbiguousIn(_)
\* expr holds an unqualified column whose name is in the schema of both A and B
AmbiguousIn(expr) ==
    CASE expr.type = "Column" ->
            /\ expr.table = NoName
            /\ \E i \in 1..Len(db.A.schema) : db.A.schema[i] = expr.column
            /\ \E i \in 1..Len(db.B.schema) : db.B.schema[i] = expr.column
      [] expr.type = "Binary" -> AmbiguousIn(expr.lhs) \/ AmbiguousIn(expr.rhs)
      [] expr.type = "Unary" -> AmbiguousIn(expr.operand)
      [] OTHER -> FALSE

\* the statement joins A and B
JoinsAB ==
    sql.table.name = "A" /\ Len(sql.join) = 1 /\ sql.join[1].table.name = "B"

\* C14: evaluating an unqualified column that more than one participating
\* table has makes the query fail with an ambiguous-column error returned to
\* the caller; the call does not crash. (An ON condition is evaluated at the
\* first cursor state of every run.)
C14_AmbiguousColumnIsReturned ==
    /\ ret # "Panic"
    /\ (Done /\ JoinsAB /\ AmbiguousIn(sql.join[1].condition)) => ret = "AmbiguousColumn"

\* A and B hold at least one row each
BothPopulated == RowCount(db.A) > 0 /\ RowCount(db.B) > 0

\* C15: a query with a LEFT JOIN (here over tables with at least one row each)
\* never returns CursorNone to the caller, also when WHERE reads a column of
\* the right-hand table.
C15_CursorNoneNeverSurfaces ==
    (Done /\ JoinsAB /\ sql.join[1].kind = "Left" /\ BothPopulated) => ret # "CursorNone"

\* C16: when the call returns an error, no row has been passed to the sink.
C16_NoPartialResult ==
    (Done /\ ret \notin {"Ok", "Panic", "StackOverflow"}) => out = <<>>

\* the value of the ON condition at the first cursor state
FirstOnValue ==
    eval_expr(sql.join[1].condition, <<0 - 1>>, cols, QueryContext(db, sql),
              [i \in 1..2 |-> NewRowCursor], AggregateResult, MaxDepth)

\* C17: an evaluation error other than CursorNone raised by an ON condition
\* (here over tables with at least one row each) is returned by exec_select.
C17_OnConditionErrorIsReturned ==
    (Done /\ JoinsAB /\ BothPopulated
          /\ ~FirstOnValue.ok /\ FirstOnValue.err \notin {"CursorNone", "Panic"})
        => ret = FirstOnValue.err

\* C20: in an aggregated query every accumulator is updated once per
\* qualifying row, also when the aggregate is referenced by position:
\* after the loop over a single table with at least one row, every count
\* accumulator holds the number of qualifying rows, and SELECT count(*) FROM T
\* ORDER BY 1 emits that number.
C20_AccumulatorUpdatedOncePerRow ==
    (Aggregated /\ SingleTable /\ sql.table.name = "A" /\ RowCount(db.A) > 0)
        => /\ pc = "agg_emit" =>
                 \A addr \in DOMAIN results.count : results.count[addr] = Len(Qualifying)
           /\ (Done /\ ret = "Ok" /\ sql.cols = <<ColExpr(CountStar)>>
                    /\ sql.limit = NoneIdx /\ sql.offset = NoneIdx)
                 => DataRows(out) = << <<ToString(Len(Qualifying))>> >>

\* the three operands the precedence examples are built from
Operands == {Str("1"), Str("2"), Str("3")}
OperandExpr(tok) == StrLiteral(tok.text)

\* C18: the parser applies the precedence OR < AND < comparison: for all
\* operands a, b, c, `a AND b < c` parses as And(a, Lt(b, c)), `a < b OR c`
\* as Or(Lt(a, b), c), and `a OR b AND c` as Or(a, And(b, c)).
C18_ParserPrecedence ==
    parsed # Unparsed =>
        \A a, b, c \in Operands :
            /\ source = <<a, Word("AND"), b, Sym("<"), c>> =>
                  parsed = PRes(Binary("And", OperandExpr(a), Binary("Lt", OperandExpr(b), OperandExpr(c))), 6)
            /\ source = <<a, Sym("<"), b, Word("OR"), c>> =>
                  parsed = PRes(Binary("Or", Binary("Lt", OperandExpr(a), OperandExpr(b)), OperandExpr(c)), 6)
            /\ source = <<a, Word("OR"), b, Word("AND"), c>> =>
                  parsed = PRes(Binary("Or", OperandExpr(a), Binary("And", OperandExpr(b), OperandExpr(c))), 6)

\* the cursor positions of a trail in which every cursor is at a stored row
ValidPositions(positions) ==
    SelectSeq(positions,
              LAMBDA rows : \A i \in 1..Len(rows) : rows[i] # NoneIdx /\ rows[i] < counts[i])

RECURSIVE Product(_, _)
\* counts[i] * .. * counts[Len(counts)]
Product(ns, i) == IF i > Len(ns) THEN 1 ELSE ns[i] * Product(ns, i + 1)

\* the Cartesian product of the row indices in lexicographic order, the
\* rightmost index varying fastest
LexProduct(ns) ==
    [n \in 1..Product(ns, 1) |->
        [i \in 1..Len(ns) |-> ((n - 1) \div Product(ns, i + 1)) % ns[i]]]

\* C19: from all cursors at row 0, incr_row_cursor returns false after
\* finitely many calls, and the positions with every cursor at a stored row
\* are the Cartesian product of the row indices, once each, in lexicographic
\* order with the rightmost cursor varying fastest.
C19_CursorEnumeratesProduct ==
    /\ <>(~more)
    /\ [](/\ Len(ValidPositions(trail)) <= Product(counts, 1)
          /\ ValidPositions(trail) = SubSeq(LexProduct(counts), 1, Len(ValidPositions(trail)))
          /\ ~more => ValidPositions(trail) = LexProduct(counts))

\* C19 happens: the loop over three tables of two or more rows has ended,
\* after carries out of both right-hand cursors
C19_Witness ==
    /\ ~more
    /\ Len(counts) = 3 /\ \A i \in 1..3 : counts[i] >= 2
    /\ Len(ValidPositions(trail)) >= 8
    /\ Len(trail) > Len(ValidPositions(trail))

\* the number of data rows SELECT * emits for the same FROM, JOIN and WHERE
StarRowCount == Len(DataRows(exec_select(db, [sql EXCEPT !.cols = <<Wildcard>>]).out))

\* C21: SELECT count(*) FROM A INNER JOIN B ON c yields the number of data rows
\* that SELECT * FROM A INNER JOIN B ON c emits (here over tables with at least
\* one row each, and where SELECT * emits exactly the matching pairs).
C21_CountOverJoinCountsEmittedRows ==
    (Done /\ sql.cols = <<ColExpr(CountStar)>> /\ JoinsAB /\ sql.join[1].kind = "Inner"
          /\ sql.condition = NoExpr /\ NoWindow /\ BothPopulated
          /\ StarRowCount = Len(Matching))
        => (ret = "Ok" /\ DataRows(out) = << <<ToString(StarRowCount)>> >>)

\* the numbers in column k of the qualifying rows of A
QualifyingNums == {coerce_f64(StoredRow(db.A, Qualifying[n])[2]) : n \in 1..Len(Qualifying)}

\* C22: SELECT min(k), max(k) FROM A [WHERE p] yields the smallest and the
\* largest number of column k over the qualifying rows, whenever at least one
\* row qualifies.
C22_MinMaxOverQualifyingRows ==
    (Done /\ SingleTable /\ NoWindow /\ Len(Qualifying) > 0
          /\ sql.cols = <<ColExpr(Agg("min", Column(NoName, "k"))),
                          ColExpr(Agg("MAX", Column(NoName, "k")))>>)
        => /\ ret = "Ok"
           /\ DataRows(out) =
                 << <<ToString(CHOOSE m \in QualifyingNums : \A n \in QualifyingNums : m <= n),
                      ToString(CHOOSE m \in QualifyingNums : \A n \in QualifyingNums : m >= n)>> >>

\* C23: SELECT count(*), k FROM A [WHERE p] over a table with at least one row
\* emits a single row whose cell for k is the value of k in the last iterated
\* (the last stored) row of A.
C23_PlainColumnShowsLastRow ==
    (Done /\ SingleTable /\ NoWindow /\ RowCount(db.A) > 0
          /\ sql.cols = <<ColExpr(CountStar), ColExpr(Column(NoName, "k"))>>)
        => /\ Len(DataRows(out)) = 1
           /\ DataRows(out)[1][2] = StoredRow(db.A, RowCount(db.A) - 1)[2]

\* the statement is SELECT k FROM A ORDER BY i
OrderedByPosition(i) ==
    /\ sql.cols = <<ColExpr(Column(NoName, "k"))>> /\ SingleTable
    /\ sql.ordering.expr = ColIdx(i)

\* C24: the evaluation of a positional reference always terminates: no call
\* exhausts the stack; ORDER BY 0 and ORDER BY 3 on a projection of one
\* expression fail with column-not-found, ORDER BY 2 (the appended sort key
\* itself) ends with an error, and ORDER BY 1 sorts by the first expression.
C24_PositionalReferenceTerminates ==
    /\ ret # "StackOverflow"
    /\ (Done /\ RowCount(db.A) > 0)
          => /\ (OrderedByPosition(0) \/ OrderedByPosition(3)) => ret = "ColNotFound"
             /\ OrderedByPosition(2) => ret \notin {"Ok", "Panic"}
             /\ OrderedByPosition(1) => ret = "Ok"

\* C25: Table.get(row, col) returns the stored cell of that row and column
\* when row < rows(T) and col < columns(T), and absence when row >= rows(T)
\* or col >= columns(T); it never returns a cell of another row.
C25_GetStaysInsideTheRow ==
    got # NotAsked =>
        IF asked[1] < RowCount(self) /\ asked[2] < Len(self.schema)
        THEN got = [some |-> TRUE, val |-> StoredRow(self, asked[1])[asked[2] + 1]]
        ELSE ~got.some

\* this step of the main loop hands a row to the sink of exec_select_sub
EmitsRow == pc = "main" /\ Len(out') + Len(buf') = Len(out) + Len(buf) + 1

RECURSIVE CellsAt(_, _, _)
\* the cells of the tables from position p on, each at the row of its own
\* cursor (empty cells for a cursor at None)
CellsAt(ctx, rc, p) ==
    IF p > Len(ctx.tables) THEN <<>>
    ELSE (IF rc[p].row = NoneIdx THEN [c \in 1..Len(ctx.tables[p].schema) |-> ""]
          ELSE StoredRow(ctx.tables[p], rc[p].row))
         \o CellsAt(ctx, rc, p + 1)

\* C27: every row that SELECT * over joined tables emits holds, for the table
\* at each position of the FROM/JOIN sequence, the cells of the row its own
\* cursor points at, also when one catalog table takes part twice under two
\* aliases.
C27_WildcardReadsOwnCursor ==
    [][(EmitsRow /\ SelectStar /\ sql.join # <<>> /\ NoWindow)
          => out'[Len(out')] = CellsAt(QueryContext(db, sql), row_cursor, 1)]_vars

\* C28: every row in the caller's sink, header and data rows alike, has as
\* many cells as the expanded projection has expressions; the sort key
\* appended for ORDER BY never reaches the sink.
C28_RowsHaveProjectionWidth ==
    ~NamesMissingTable =>
        \A n \in 1..Len(out) : Len(out[n]) = Len(ExpandedExprs(QueryContext(db, sql), sql))

\* C28 happens: an ordered SELECT * has returned two or more data rows, whose
\* buffered rows carried the sort key
C28_Witness ==
    /\ Done /\ ret = "Ok" /\ SelectStar /\ sql.ordering # NoOrder
    /\ Len(DataRows(out)) >= 2
    /\ \A n \in 1..Len(buf) : Len(buf[n]) = Len(out[1]) + 1

\* C29: a LEFT JOIN query never emits a row from a cursor combination in
\* which the cursor of the FROM table is None, whatever the ON condition.
C29_FromCursorIsARow ==
    [][(EmitsRow /\ JoinOf("Left") /\ BothPopulated) => row_cursor[1].row # NoneIdx]_vars

\* the ON condition of join clause j evaluates to a value that coerces to true
\* at the cursor combination rc
OnHoldsAt(j, rc) ==
    Bind(eval_expr(sql.join[j].condition, <<0 - j>>, cols, QueryContext(db, sql), rc,
                   AggregateResult, MaxDepth),
         LAMBDA v : v.ok /\ coerce_bool(v.val))

\* C30: for every emitted data row of a query with joins (here over tables
\* with at least one row each) and every join clause j, either the ON
\* condition of j is true at the row's cursor combination, or j is a LEFT join
\* and the cursor of its table is None.
C30_EveryJoinHoldsOrIsPadded ==
    [][(EmitsRow /\ sql.join # <<>> /\ BothPopulated)
          => \A j \in 1..Len(sql.join) :
                \/ OnHoldsAt(j, row_cursor)
                \/ sql.join[j].kind = "Left" /\ row_cursor[j + 1].row = NoneIdx]_vars

RECURSIVE SplitAt(_, _)
\* the pieces of chars between the occurrences of sep
SplitAt(chars, sep) ==
    IF \E i \in 1..Len(chars) : chars[i] = sep
    THEN Bind(CHOOSE i \in 1..Len(chars) :
                 chars[i] = sep /\ \A j \in 1..(i - 1) : chars[j] # sep,
              LAMBDA i : <<SubSeq(chars, 1, i - 1)>>
                         \o SplitAt(SubSeq(chars, i + 1, Len(chars)), sep))
    ELSE <<chars>>

\* the lines of the input, its header line and its non-empty data lines
InputLines == SplitAt(content, Newline)
HeaderLine == InputLines[1]
DataLines == SelectSeq(Tail(InputLines), LAMBDA l : l # <<>>)

\* the cells of a line of bare cells
BareCells(l) == [c \in 1..Len(SplitAt(l, Comma)) |-> ToStr(SplitAt(l, Comma)[c])]

\* a line of one or more bare non-empty cells of letters: a(,a)*
PlainLine(l) ==
    /\ l # <<>>
    /\ \A i \in 1..Len(l) : l[i] \in {"a", Comma}
    /\ \A c \in 1..Len(BareCells(l)) : BareCells(l)[c] # ""

\* the input is a header line followed by data lines, each empty or plain
PlainInput == PlainLine(HeaderLine) /\ \A n \in 1..Len(DataLines) : PlainLine(DataLines[n])

RECURSIVE Flatten(_)
Flatten(seqs) == IF seqs = <<>> THEN <<>> ELSE seqs[1] \o Flatten(Tail(seqs))

\* C26: a table returned by make_table has one or more columns and a whole
\* number of rows; for an input of plain lines it holds one stored row per
\* non-empty data line, in input order, and make_table returns an error
\* instead when a non-empty data line has another cell count than the header.
C26_MakeTableKeepsEveryDataLine ==
    made # NotMade =>
        /\ made.ok => /\ Len(made.table.schema) >= 1
                      /\ Len(made.table.data) % Len(made.table.schema) = 0
        /\ PlainInput =>
              IF \E n \in 1..Len(DataLines) :
                    Len(BareCells(DataLines[n])) # Len(BareCells(HeaderLine))
              THEN ~made.ok
              ELSE made = TableOk(Table("T", BareCells(HeaderLine),
                                        Flatten([n \in 1..Len(DataLines) |->
                                                    BareCells(DataLines[n])])))

====
